---- MODULE Spec2Model ----
(***************************************************************************)
(* Client-side state machine of the RPC performance dashboard              *)
(* (src/unnamed/part_000): the polling guard of fetchData, the leaderboard *)
(* ranking of updateLeaderboard, the per-nickname chart series with their  *)
(* colours and hidden flags, the y-axis rescale and the auto-refresh       *)
(* timer.                                                                  *)
(*                                                                         *)
(* Encoding of JavaScript values.  Numbers that the page handles are       *)
(* naturals here; the three non-natural values the code can produce are    *)
(* encoded as negative tags so that they stay comparable with numbers:     *)
(*   Undef  - `undefined` (a missing property, an unset map key)           *)
(*   NegInf - -Infinity (Math.max of no arguments)                         *)
(*   NaN    - NaN (arithmetic on undefined)                                *)
(* The y-axis maximum is kept in tenths (variable yMax10 = 10 * y.max) so  *)
(* that the factor 1.1 of the source stays an integer operation.           *)
(* Timestamps (the x of a chart point, the time string of a leaderboard    *)
(* row, the time in the status line) are not modelled.                     *)
(***************************************************************************)
EXTENDS Integers, Sequences, FiniteSets, TLC

Undef == -1
NegInf == -2
NaN == -3

\* ---- bounds of the model ------------------------------------------------
MaxBatch == 2        \* samples in one fetched batch
MaxRows == 1         \* entries of a leaderboard that comes without samples
MaxCount == 1        \* cap on requestCount between two rate-window resets
MaxRankLen == 3      \* entries of a list handed to updateLeaderboard (SpecRank)

\* ---- program constants --------------------------------------------------
SlotLatencyLimit == 200

colors ==
    << "rgba(255, 99, 132, 1)", "rgba(54, 162, 235, 1)", "rgba(255, 206, 86, 1)",
       "rgba(75, 192, 192, 1)", "rgba(153, 102, 255, 1)", "rgba(255, 159, 64, 1)" >>

\* ---- input domains ------------------------------------------------------
Nick == {"A", "B"}

\* nicknames in the order Array.prototype.sort() gives them (code-unit order)
NickOrder == << "A", "B" >>

Lat == {100, 1000}
Tot == {60}

Samples == [nickname : Nick, latency_ms : Lat, total_latency_ms : Tot]

\* the sequences over S of length at most n
SeqsUpTo(S, n) == UNION {[1 .. k -> S] : k \in 0 .. n}

Batches == SeqsUpTo(Samples, MaxBatch)

\* consensus.latency_leaderboard as the backend derives it from the samples:
\* one entry per sample, its value the sample's total latency
BoardOf(batch) ==
    [i \in 1 .. Len(batch) |->
        [nickname |-> batch[i].nickname, value |-> batch[i].total_latency_ms,
         latency_ms |-> batch[i].latency_ms,
         total_latency_ms |-> batch[i].total_latency_ms]]

Boards == {BoardOf(b) : b \in SeqsUpTo(Samples, MaxRows)}

ElementIds == {"latencyLeaderboard", "slotLeaderboard"}

Max2(a, b) == IF a >= b THEN a ELSE b

\* rank indexes a rendered leaderboard can have
RowIdx == 0 .. (Max2(Max2(MaxRows, MaxRankLen), MaxBatch) - 1)

PrevKeys == ElementIds \X RowIdx

\* ---- Array.prototype.sort with a comparator -----------------------------
\* The sign of x - y as sort() reads it: a NaN result (an operand undefined)
\* counts as +0.
CmpNum(x, y) ==
    IF x = Undef \/ y = Undef \/ x = NaN \/ y = NaN THEN 0
    ELSE IF x < y THEN -1 ELSE IF x > y THEN 1 ELSE 0

\* a === b on numbers
StrictEq(x, y) == x = y /\ x # NaN

\* line 43/44: latency_ms if it exists, else total_latency_ms
FastestKeyByTotal(e) == e.total_latency_ms

FastestKey(e) == IF e.latency_ms # Undef THEN e.latency_ms ELSE e.total_latency_ms

CompareSlots(a, b) ==
    IF StrictEq(b.value, a.value)
    THEN CmpNum(a.total_latency_ms, b.total_latency_ms)
    ELSE CmpNum(b.value, a.value)

CompareFastest(a, b) == CmpNum(FastestKey(a), FastestKey(b))

CompareAverage(a, b) ==
    \* a.averageLatency - b.averageLatency on the fractions num/den
    CmpNum(a.averageLatency[1] * b.averageLatency[2],
           b.averageLatency[1] * a.averageLatency[2])

Compare(kind, a, b) ==
    CASE kind = "slots" -> CompareSlots(a, b)
      [] kind = "fastest" -> CompareFastest(a, b)
      [] kind = "average" -> CompareAverage(a, b)

\* sort() is stable: an element is inserted after every element that does
\* not compare greater than it.  Works on positions of `data`.
RECURSIVE InsertPos(_, _, _, _, _)
InsertPos(kind, data, p, k, j) ==
    IF j = 0 THEN 0
    ELSE IF Compare(kind, data[p[j]], data[k]) > 0
         THEN InsertPos(kind, data, p, k, j - 1)
         ELSE j

RECURSIVE SortPerm(_, _, _)
SortPerm(kind, data, n) ==
    IF n = 0 THEN << >>
    ELSE LET p == SortPerm(kind, data, n - 1)
             j == InsertPos(kind, data, p, n, Len(p))
         IN  SubSeq(p, 1, j) \o << n >> \o SubSeq(p, j + 1, Len(p))

Sorted(kind, data) ==
    LET p == SortPerm(kind, data, Len(data))
    IN  [i \in 1 .. Len(data) |-> data[p[i]]]

\* ---- updateLeaderboard --------------------------------------------------
SlotAdjustAlways(entry) == [entry EXCEPT !.value = entry.value - 1]

\* line 32: an entry slower than 200 ms is ranked one slot lower
SlotAdjust(entry) ==
    IF entry.latency_ms # Undef /\ entry.latency_ms > SlotLatencyLimit
    THEN [entry EXCEPT !.value = IF entry.value = Undef THEN NaN ELSE entry.value - 1]
    ELSE entry

\* lines 30-47: the list that is rendered
Ranked(data, title) ==
    CASE title = "Highest Slots" ->
            Sorted("slots", [i \in 1 .. Len(data) |-> SlotAdjust(data[i])])
      [] title = "Fastest Response Times" -> Sorted("fastest", data)
      [] OTHER -> data

\* lines 30-47: the caller's array after the call (sort() is in place, map()
\* makes a new array)
InputAfter(data, title) ==
    IF title = "Fastest Response Times" THEN Sorted("fastest", data) ELSE data

\* lines 49-59: the rows with their new-record flag
Rows(elementId, ranked, prev) ==
    [i \in 1 .. Len(ranked) |->
        [entry |-> ranked[i],
         newRecord |-> prev[<< elementId, i - 1 >>] # ranked[i].value]]

\* line 58: previousValues after the render
PrevAfter(elementId, ranked, prev) ==
    [k \in PrevKeys |->
        IF k[1] = elementId /\ k[2] + 1 <= Len(ranked)
        THEN ranked[k[2] + 1].value
        ELSE prev[k]]

\* ---- fetchData: the derived average leaderboard (lines 110-122) ----------
Range(f) == {f[i] : i \in DOMAIN f}

\* line 110: the distinct nicknames of the batch, sorted
NicknamesOf(data) ==
    SelectSeq(NickOrder, LAMBDA n : \E i \in DOMAIN data : data[i].nickname = n)

RECURSIVE SumTotal(_)
SumTotal(items) ==
    IF items = << >> THEN 0
    ELSE Head(items).total_latency_ms + SumTotal(Tail(items))

RECURSIVE Gcd(_, _)
Gcd(a, b) == IF b = 0 THEN a ELSE Gcd(b, a % b)

\* the number num/den as a reduced fraction << n, d >>
Frac(num, den) ==
    LET g == Gcd(num, den) IN IF g = 0 THEN << 0, 1 >> ELSE << num \div g, den \div g >>

RECURSIVE SumLatency(_)
SumLatency(items) ==
    IF items = << >> THEN 0
    ELSE Head(items).latency_ms + SumLatency(Tail(items))

AvgOfLatency(data, nickname) ==
    LET endpointData == SelectSeq(data, LAMBDA item : item.nickname = nickname)
    IN  IF Len(endpointData) > 0
        THEN Frac(SumLatency(endpointData), Len(endpointData))
        ELSE << 0, 1 >>

\* lines 112-114: the mean of total_latency_ms over the nickname's samples
AvgOf(data, nickname) ==
    LET endpointData == SelectSeq(data, LAMBDA item : item.nickname = nickname)
    IN  IF Len(endpointData) > 0
        THEN Frac(SumTotal(endpointData), Len(endpointData))
        ELSE << 0, 1 >>

\* lines 111-122: one entry per nickname (it has no `value` property, so
\* entry.value reads undefined), sorted by lowest average first
AvgResponseTimes(data) ==
    LET nicknames == NicknamesOf(data)
    IN  Sorted("average",
               [i \in 1 .. Len(nicknames) |->
                   [nickname |-> nicknames[i],
                    averageLatency |-> AvgOf(data, nicknames[i]),
                    value |-> Undef]])

\* line 127: averageLatency.toFixed(2), in hundredths (ties round up)
ToFixed2(avg) == (2 * 100 * avg[1] + avg[2]) \div (2 * avg[2])

\* ---- fetchData: the chart series (lines 131-148) -------------------------
ColorMapOverwrite(map, nicknames) ==
    [n \in DOMAIN map \cup Range(nicknames) |->
        IF n \in Range(nicknames)
        THEN LET index == (CHOOSE i \in DOMAIN nicknames : nicknames[i] = n) - 1
             IN  colors[(index % Len(colors)) + 1]
        ELSE map[n]]

\* lines 132-134: a nickname without a colour gets colors[index % colors.length]
ColorMapAfter(map, nicknames) ==
    [n \in DOMAIN map \cup Range(nicknames) |->
        IF n \in DOMAIN map THEN map[n]
        ELSE LET index == (CHOOSE i \in DOMAIN nicknames : nicknames[i] = n) - 1
             IN  colors[(index % Len(colors)) + 1]]

HiddenAlwaysFalse(hidden, nickname) == FALSE

\* line 146: hiddenDatasets[nickname] || false
HiddenOf(hidden, nickname) ==
    IF nickname \in DOMAIN hidden THEN hidden[nickname] ELSE FALSE

\* a series for every nickname that has a colour, in the batch or not
DatasetsOfAllSeen(data, map, hidden) ==
    LET nicknames == SelectSeq(NickOrder, LAMBDA n : n \in DOMAIN map)
        points(n) == LET own == SelectSeq(data, LAMBDA item : item.nickname = n)
                     IN  [i \in 1 .. Len(own) |-> own[i].latency_ms]
    IN  [i \in 1 .. Len(nicknames) |->
            [label |-> nicknames[i],
             data |-> points(nicknames[i]),
             borderColor |-> map[nicknames[i]],
             hidden |-> HiddenOf(hidden, nicknames[i])]]

\* lines 131-148
Datasets(data, map, hidden) ==
    LET nicknames == NicknamesOf(data)
        points(n) == LET own == SelectSeq(data, LAMBDA item : item.nickname = n)
                     IN  [i \in 1 .. Len(own) |-> own[i].latency_ms]
    IN  [i \in 1 .. Len(nicknames) |->
            [label |-> nicknames[i],
             data |-> points(nicknames[i]),
             borderColor |-> map[nicknames[i]],
             hidden |-> HiddenOf(hidden, nicknames[i])]]

\* ---- the y-axis bound ------------------------------------------------------
RECURSIVE FlatPoints(_)
FlatPoints(ds) ==
    IF ds = << >> THEN << >> ELSE Head(ds).data \o FlatPoints(Tail(ds))

\* Math.max(...xs): -Infinity when there is no argument
MathMax(xs) ==
    IF xs = << >> THEN NegInf
    ELSE CHOOSE m \in Range(xs) : \A x \in Range(xs) : x <= m

\* m * 1.1, in tenths
Times11(m) == IF m = NegInf THEN NegInf ELSE 11 * m

AllDatasets(ds) == ds

\* line 73: the datasets that are not hidden
VisibleDatasets(ds) == SelectSeq(ds, LAMBDA d : ~d.hidden)

\* lines 73-75: the bound updateYAxisMax sets
YAxisMax10(ds) == Times11(MathMax(FlatPoints(VisibleDatasets(ds))))

\* line 189: the bound a new chart is created with
InitialYMax10(ds) == Times11(MathMax(FlatPoints(ds)))

\* ---- what a fetch can settle with ----------------------------------------
Summaries == {"s1"}

\* reject:     fetch() or response.json() rejects, or the body is no pair
\* badSummary: the summary has no consensus_percentage (line 101 throws)
\* badBoard:   the summary has no latency_leaderboard (line 41 throws)
\* badData:    the first element is no array (line 110 throws)
\* ok:         a well-formed [samples, summary] pair
\* responseOk is response.ok, the HTTP status of the response being 2xx;
\* fetch() resolves whatever the status is.
Payloads ==
    [kind : {"reject"}]
    \cup [kind : {"badSummary", "badBoard"}, responseOk : BOOLEAN, summary : Summaries]
    \cup [kind : {"badData"}, responseOk : BOOLEAN, summary : Summaries, board : Boards]
    \cup {[kind |-> "ok", responseOk |-> r, summary |-> s, board |-> BoardOf(b),
           data |-> b] : r \in BOOLEAN, s \in Summaries, b \in Batches}

\* ---- state -----------------------------------------------------------------
VARIABLES
    page,                \* "loading" until DOMContentLoaded has run, then "ready"
    indicatorEl,         \* the document has an element #updateIndicator
    updating,            \* line 1
    requestCount,        \* line 236
    indicatorBusy,       \* #updateIndicator carries the class 'updating'
    pending,             \* fetch() calls whose promise has not settled
    status,              \* text of #status
    consensusHead,       \* summary shown by the fields of lines 97-100
    consensusTail,       \* summary shown by the fields of lines 101-103
    previousValues,      \* line 2
    latencyBoard,        \* rows of #latencyLeaderboard
    slotBoard,           \* rows of #slotLeaderboard
    chartCreated,        \* responseTimeChart is set (line 3)
    datasets,            \* responseTimeChart.data.datasets
    yMax10,              \* 10 * responseTimeChart.options.scales.y.max
    hiddenDatasets,      \* line 4
    nicknameColorMap,    \* line 15
    legend,              \* nicknames of the items of #legend, each with its onclick
    autoRefresh,         \* line 249
    activeTimers,        \* refresh intervals that are set and not cleared
    refreshIntervalLive, \* refreshInterval (line 250) names a timer that is set
    rateTimer,           \* the updateRequestRate interval is set
    lastToggle,          \* history: nickname -> the flag its last legend click set
    lastBatch,           \* history: the samples of the last response applied in full
    rank                 \* an updateLeaderboard call on its own (SpecRank)

vars ==
    << page, indicatorEl, updating, requestCount, indicatorBusy, pending, status,
       consensusHead, consensusTail, previousValues, latencyBoard, slotBoard,
       chartCreated, datasets, yMax10, hiddenDatasets, nicknameColorMap, legend,
       autoRefresh, activeTimers, refreshIntervalLive, rateTimer,
       lastToggle, lastBatch, rank >>

pollVars == << updating, requestCount, indicatorBusy, pending >>

viewVars ==
    << status, consensusHead, consensusTail, previousValues, latencyBoard, slotBoard,
       chartCreated, datasets, yMax10, nicknameColorMap, legend >>

timerVars == << autoRefresh, activeTimers, refreshIntervalLive, rateTimer >>

EmptyMap == [n \in {} |-> FALSE]

InitPage ==
    /\ page = "loading"
    /\ indicatorEl \in BOOLEAN
    /\ updating = FALSE
    /\ requestCount = 0
    /\ indicatorBusy = FALSE
    /\ pending = 0
    /\ status = ""
    /\ consensusHead = ""
    /\ consensusTail = ""
    /\ previousValues = [k \in PrevKeys |-> Undef]
    /\ latencyBoard = << >>
    /\ slotBoard = << >>
    /\ chartCreated = FALSE
    /\ datasets = << >>
    /\ yMax10 = Undef
    /\ hiddenDatasets = EmptyMap
    /\ nicknameColorMap = EmptyMap
    /\ legend = << >>
    /\ autoRefresh = TRUE
    /\ activeTimers = 0
    /\ refreshIntervalLive = FALSE
    /\ rateTimer = FALSE
    /\ lastToggle = EmptyMap
    /\ lastBatch = << >>

Init == InitPage /\ rank = [phase |-> "none"]

\* ---- fetchData up to its first await (lines 79-90) -------------------------
GuardNever(u) == FALSE

\* line 80: if (updating) return
GuardHeld(u) == u

CountAlways(u, count) == count + 1

\* lines 80-82: requestCount++ comes after the guard
CountAfterCall(u, count) == IF GuardHeld(u) THEN count ELSE count + 1

\* line 84 throws (outside the try) when the page has no #updateIndicator:
\* the promise of the call is rejected and nobody handles it
FetchDataThrows == ~GuardHeld(updating) /\ ~indicatorEl

FetchDataCall ==
    /\ requestCount' = CountAfterCall(updating, requestCount)
    /\ IF GuardHeld(updating)
       THEN UNCHANGED << updating, indicatorBusy, pending >>
       ELSE /\ updating' = TRUE
            /\ IF indicatorEl
               THEN indicatorBusy' = TRUE /\ pending' = pending + 1
               ELSE UNCHANGED << indicatorBusy, pending >>

\* lines 273-277: the DOMContentLoaded handler.  fetchData is an async
\* function: a throw at line 84 rejects the promise it returns and the
\* handler goes on to set both intervals.
Initialize ==
    /\ page = "loading"
    /\ page' = "ready"
    /\ FetchDataCall
    /\ activeTimers' = activeTimers + 1
    /\ refreshIntervalLive' = TRUE
    /\ rateTimer' = TRUE
    /\ UNCHANGED << indicatorEl, viewVars, hiddenDatasets, autoRefresh, lastToggle,
                    lastBatch, rank >>

\* a refresh interval fires: fetchData()
Tick ==
    /\ page = "ready"
    /\ activeTimers > 0
    /\ GuardHeld(updating) \/ requestCount < MaxCount
    /\ FetchDataCall
    /\ UNCHANGED << page, indicatorEl, viewVars, hiddenDatasets, timerVars, lastToggle,
                    lastBatch, rank >>

\* ---- fetchData after the await (lines 91-232) -----------------------------
\* lines 150-194: an existing chart only gets the new datasets, a new chart
\* is created with the bound of line 189
YMaxOnRefresh(created, old, ds) == IF created THEN old ELSE InitialYMax10(ds)

\* how far the try block gets before it throws
ReachesSummaryHead(p) == p.kind # "reject"

\* line 101 passes whenever line 97 does
ReachesTailAfterHead(p) == p.kind # "reject"

ReachesSummaryTail(p) == p.kind \in {"badBoard", "badData", "ok"}
ReachesLatencyBoard(p) == p.kind \in {"badData", "ok"}
ReachesChart(p) == p.kind = "ok"

FetchSettle(p) ==
    /\ pending > 0
    /\ pending' = pending - 1
    \* lines 97-103
    /\ consensusHead' = IF ReachesSummaryHead(p) THEN p.summary ELSE consensusHead
    /\ consensusTail' = IF ReachesSummaryTail(p) THEN p.summary ELSE consensusTail
    \* lines 106-128
    /\ LET fastest == IF ReachesLatencyBoard(p)
                      THEN Ranked(p.board, "Fastest Response Times") ELSE << >>
           prev1   == IF ReachesLatencyBoard(p)
                      THEN PrevAfter("latencyLeaderboard", fastest, previousValues)
                      ELSE previousValues
           average == IF ReachesChart(p)
                      THEN Ranked(AvgResponseTimes(p.data), "Average Response Times")
                      ELSE << >>
       IN  /\ latencyBoard' = IF ReachesLatencyBoard(p)
                              THEN Rows("latencyLeaderboard", fastest, previousValues)
                              ELSE latencyBoard
           /\ slotBoard' = IF ReachesChart(p)
                           THEN Rows("slotLeaderboard", average, prev1)
                           ELSE slotBoard
           /\ previousValues' = IF ReachesChart(p)
                                THEN PrevAfter("slotLeaderboard", average, prev1)
                                ELSE prev1
    \* lines 131-223
    /\ IF ReachesChart(p)
       THEN LET map == ColorMapAfter(nicknameColorMap, NicknamesOf(p.data))
                ds  == Datasets(p.data, map, hiddenDatasets)
            IN  /\ nicknameColorMap' = map
                /\ datasets' = ds
                /\ chartCreated' = TRUE
                /\ yMax10' = YMaxOnRefresh(chartCreated, yMax10, ds)
                /\ legend' = NicknamesOf(p.data)
       ELSE UNCHANGED << nicknameColorMap, datasets, chartCreated, yMax10, legend >>
    \* lines 225-228
    /\ status' = IF p.kind = "ok" THEN "Last updated" ELSE "Error updating data"
    \* lines 229-232
    /\ updating' = FALSE
    /\ indicatorBusy' = FALSE
    /\ lastBatch' = IF ReachesChart(p) THEN p.data ELSE lastBatch
    /\ UNCHANGED << page, indicatorEl, requestCount, hiddenDatasets, timerVars,
                    lastToggle, rank >>

\* ---- the legend (lines 214-221) and updateYAxisMax (lines 72-77) ----------
\* lines 215-217: the dataset labelled `nickname` gets its flag flipped
Flip(ds, nickname) ==
    [i \in DOMAIN ds |->
        IF ds[i].label = nickname THEN [ds[i] EXCEPT !.hidden = ~ds[i].hidden]
        ELSE ds[i]]

LegendClick(nickname) ==
    /\ nickname \in Range(legend)
    \* line 215: find() gives undefined for a label the chart does not hold,
    \* and line 217 throws
    /\ \E i \in DOMAIN datasets : datasets[i].label = nickname
    /\ LET ds == Flip(datasets, nickname)
           d  == ds[CHOOSE i \in DOMAIN ds : ds[i].label = nickname]
       IN  /\ datasets' = ds
           /\ hiddenDatasets' =
                 [n \in DOMAIN hiddenDatasets \cup {nickname} |->
                     IF n = nickname THEN d.hidden ELSE hiddenDatasets[n]]
           /\ lastToggle' =
                 [n \in DOMAIN lastToggle \cup {nickname} |->
                     IF n = nickname THEN d.hidden ELSE lastToggle[n]]
           /\ yMax10' = YAxisMax10(ds)
    /\ UNCHANGED << page, indicatorEl, pollVars, status, consensusHead, consensusTail,
                    previousValues, latencyBoard, slotBoard, chartCreated,
                    nicknameColorMap, legend, timerVars, lastBatch, rank >>

\* ---- toggleRefresh (lines 252-270) ------------------------------------------
\* a pause that leaves the interval running
ToggleRefreshNoClear ==
    /\ page = "ready"
    /\ autoRefresh' = ~autoRefresh
    /\ IF ~autoRefresh
       THEN /\ activeTimers' = activeTimers + 1
            /\ refreshIntervalLive' = TRUE
       ELSE UNCHANGED << activeTimers, refreshIntervalLive >>
    /\ UNCHANGED << page, indicatorEl, pollVars, viewVars, hiddenDatasets, rateTimer,
                    lastToggle, lastBatch, rank >>

\* The interval is set or cleared before the button and the indicator are
\* touched, so a missing element changes nothing modelled here.
ToggleRefresh ==
    /\ page = "ready"
    /\ autoRefresh' = ~autoRefresh
    /\ IF ~autoRefresh
       THEN /\ activeTimers' = activeTimers + 1
            /\ refreshIntervalLive' = TRUE
       ELSE /\ activeTimers' = IF refreshIntervalLive THEN activeTimers - 1
                                ELSE activeTimers
            /\ refreshIntervalLive' = FALSE
    /\ UNCHANGED << page, indicatorEl, pollVars, viewVars, hiddenDatasets, rateTimer,
                    lastToggle, lastBatch, rank >>

\* ---- updateRequestRate (lines 239-247) --------------------------------------
UpdateRequestRate ==
    /\ rateTimer
    /\ requestCount' = 0
    /\ UNCHANGED << page, indicatorEl, updating, indicatorBusy, pending, viewVars,
                    hiddenDatasets, timerVars, lastToggle,
                    lastBatch, rank >>

Next ==
    \/ Initialize
    \/ Tick
    \/ \E p \in Payloads : FetchSettle(p)
    \/ \E nickname \in Nick : LegendClick(nickname)
    \/ ToggleRefresh
    \/ UpdateRequestRate

Spec == Init /\ [][Next]_vars

\* ---- updateLeaderboard on its own ------------------------------------------
\* One call of updateLeaderboard on a fresh page, for every title and every
\* list up to MaxRankLen entries; rank keeps the argument as it was passed
\* (data) and as the caller finds it afterwards (after).
SlotEntries ==
    [nickname : Nick, value : {9, 10}, latency_ms : {100, 200, 250},
     total_latency_ms : {50, 300}]

\* entries with a latency_ms, and entries with only a total_latency_ms
FastestEntries ==
    {[nickname |-> n, value |-> IF l # Undef THEN l ELSE t, latency_ms |-> l,
      total_latency_ms |-> t] : n \in Nick, l \in {50, 60, 80, Undef}, t \in {55, 60}}

RankSamples == [nickname : Nick, latency_ms : {50, 80}, total_latency_ms : {55, 60}]

RankTitles == {"Highest Slots", "Fastest Response Times", "Average Response Times"}

RankEntries(title) ==
    CASE title = "Highest Slots" -> SlotEntries
      [] title = "Fastest Response Times" -> FastestEntries
      [] title = "Average Response Times" -> RankSamples

InitRank ==
    /\ InitPage
    /\ \E title \in RankTitles, n \in 0 .. MaxRankLen :
          \E d \in [1 .. n -> RankEntries(title)] :
             rank = [phase |-> "input", title |-> title, data |-> d]

\* updateLeaderboard(elementId, data, formatFn, title): lines 26-69
Render(elementId, data, title) ==
    LET ranked == Ranked(data, title)
    IN  /\ previousValues' = PrevAfter(elementId, ranked, previousValues)
        /\ IF elementId = "latencyLeaderboard"
           THEN /\ latencyBoard' = Rows(elementId, ranked, previousValues)
                /\ UNCHANGED slotBoard
           ELSE /\ slotBoard' = Rows(elementId, ranked, previousValues)
                /\ UNCHANGED latencyBoard
        /\ UNCHANGED << page, indicatorEl, pollVars, status, consensusHead,
                        consensusTail, chartCreated, datasets, yMax10,
                        hiddenDatasets, nicknameColorMap, legend, timerVars,
                        lastToggle, lastBatch >>

RenderSlots ==
    /\ rank.phase = "input" /\ rank.title = "Highest Slots"
    /\ Render("slotLeaderboard", rank.data, rank.title)
    /\ rank' = [rank EXCEPT !.phase = "done"] @@ [after |-> InputAfter(rank.data, rank.title)]

\* lines 106-108
RenderFastest ==
    /\ rank.phase = "input" /\ rank.title = "Fastest Response Times"
    /\ Render("latencyLeaderboard", rank.data, rank.title)
    /\ rank' = [rank EXCEPT !.phase = "done"] @@ [after |-> InputAfter(rank.data, rank.title)]

\* lines 110-128
RenderAverage ==
    /\ rank.phase = "input" /\ rank.title = "Average Response Times"
    /\ Render("slotLeaderboard", AvgResponseTimes(rank.data), rank.title)
    /\ rank' = [rank EXCEPT !.phase = "done"] @@ [after |-> rank.data]

NextRank == RenderSlots \/ RenderFastest \/ RenderAverage

SpecRank == InitRank /\ [][NextRank]_vars

\* ---- refreshes whose samples differ in total_latency_ms ---------------------
\* The polling loop of a page with its indicator, fed with well-formed
\* responses only; the samples take two latencies and two total latencies,
\* and each leaderboard entry carries its latency as value.
LatencyBoardOf(batch) ==
    [i \in 1 .. Len(batch) |->
        [nickname |-> batch[i].nickname, value |-> batch[i].latency_ms,
         latency_ms |-> batch[i].latency_ms,
         total_latency_ms |-> batch[i].total_latency_ms]]

MeanPayloads ==
    {[kind |-> "ok", responseOk |-> TRUE, summary |-> s,
      board |-> LatencyBoardOf(b), data |-> b] :
         s \in Summaries, b \in SeqsUpTo(RankSamples, MaxBatch)}

InitMeans == InitPage /\ indicatorEl /\ rank = [phase |-> "none"]

NextMeans ==
    \/ Initialize
    \/ Tick
    \/ \E p \in MeanPayloads : FetchSettle(p)
    \/ UpdateRequestRate

SpecMeans == InitMeans /\ [][NextMeans]_vars

\* ==== properties ===============================================================

\* C1: at most one refresh is active at any time: never more than one fetch
\* is awaiting its response, a fetch in flight holds the guard, and a fetch
\* starts only when no earlier one is still in flight.
OneRefreshAtATime ==
    /\ pending <= 1
    /\ pending = 1 => updating

\* a later refresh is in flight after an earlier one was applied
SecondRefreshInFlight == pending = 1 /\ chartCreated /\ status = "Last updated"

\* C2: a fetchData call made while a refresh is in flight changes nothing:
\* no fetch is issued, requestCount, the guard, the busy indicator, the status
\* line, the leaderboards, the chart, the colour map and the hidden-set stay.
BusyCallIsNoOp ==
    [][(Tick /\ updating)
        => UNCHANGED << pending, requestCount, updating, indicatorBusy, status,
                        latencyBoard, slotBoard, previousValues, datasets, yMax10,
                        chartCreated, legend, nicknameColorMap, hiddenDatasets >>]_vars

\* the interval is set while a refresh is in flight: its next tick is such a call
TickWhileInFlight ==
    page = "ready" /\ activeTimers > 0 /\ updating /\ pending = 1 /\ requestCount = 1

\* C3: every fetchData invocation that took the guard has released it when it
\* has ended: with no fetch in flight the guard is free and the busy
\* indicator is off.
GuardReleasedOnEveryExit == pending = 0 => (~updating /\ ~indicatorBusy)

\* C4: a colour, once in nicknameColorMap, is never overwritten or removed, and
\* every series carries the colour the map holds for its nickname.
ColourNeverChanges ==
    [][/\ \A n \in DOMAIN nicknameColorMap :
             n \in DOMAIN nicknameColorMap' /\ nicknameColorMap'[n] = nicknameColorMap[n]
       /\ \A i \in DOMAIN datasets' :
             /\ datasets'[i].label \in DOMAIN nicknameColorMap'
             /\ datasets'[i].borderColor = nicknameColorMap'[datasets'[i].label]]_vars

\* B was first seen alone (first palette colour) and now stands second, after A
ColourKeptAtNewPosition ==
    /\ Len(datasets) = 2
    /\ datasets[2].label = "B"
    /\ datasets[2].borderColor = colors[1]
    /\ datasets[1].borderColor = colors[1]

\* C5: the hidden flag of every series in the chart is the one the last
\* legend click on its nickname set, and a nickname never clicked is visible.
HiddenFollowsToggle ==
    \A i \in DOMAIN datasets :
        datasets[i].hidden =
            (IF datasets[i].label \in DOMAIN lastToggle
             THEN lastToggle[datasets[i].label] ELSE FALSE)

\* A is hidden and B, never clicked, is visible with points, after a refresh.
\* A click rescales to the visible points, so a bound of -Infinity here means
\* that B's points came with a refresh made after the last click: the
\* refresh kept A's flag.
HiddenSurvivesRefresh ==
    /\ status = "Last updated"
    /\ Len(datasets) = 2
    /\ datasets[1].hidden /\ ~datasets[2].hidden
    /\ datasets[2].data # << >>
    /\ "B" \notin DOMAIN lastToggle
    /\ yMax10 = NegInf

\* C6: after every successful refresh the y-axis maximum is 1.1 times the
\* largest latency of the visible series.
YMaxFollowsRefresh == status = "Last updated" => yMax10 = YAxisMax10(datasets)

\* the latencies plotted by the series of ds that are not hidden
VisiblePoints(ds) == UNION {Range(ds[i].data) : i \in {k \in DOMAIN ds : ~ds[k].hidden}}

MaxOf(S) == CHOOSE m \in S : \A x \in S : x <= m

\* C7: a legend click on k flips the hidden flag of the series k and of no
\* other, records the new flag in hiddenDatasets[k], and sets the y-axis
\* maximum to 1.1 times the largest latency still visible (when there is one);
\* the y-axis maximum changes in no step but a legend click or a refresh.
LegendToggleContract ==
    [][/\ \A k \in Nick :
            LegendClick(k) =>
               /\ DOMAIN datasets' = DOMAIN datasets
               /\ \A i \in DOMAIN datasets :
                     /\ datasets'[i].label = datasets[i].label
                     /\ datasets'[i].data = datasets[i].data
                     /\ datasets'[i].hidden =
                           (IF datasets[i].label = k THEN ~datasets[i].hidden
                            ELSE datasets[i].hidden)
                     /\ datasets[i].label = k =>
                           (k \in DOMAIN hiddenDatasets'
                            /\ hiddenDatasets'[k] = datasets'[i].hidden)
               /\ \A n \in DOMAIN hiddenDatasets \ {k} :
                     n \in DOMAIN hiddenDatasets' /\ hiddenDatasets'[n] = hiddenDatasets[n]
               /\ VisiblePoints(datasets') # {} =>
                     yMax10' = 11 * MaxOf(VisiblePoints(datasets'))
       /\ yMax10' # yMax10 =>
            \/ \E k \in Nick : LegendClick(k)
            \/ \E p \in Payloads : FetchSettle(p)]_vars

\* visible maximum 100, hidden maximum 1000: the bound is 110, not 1100
AxisIgnoresHiddenSeries ==
    /\ Len(datasets) = 2
    /\ ~datasets[1].hidden /\ datasets[1].data = << 100 >>
    /\ datasets[2].hidden /\ datasets[2].data = << 1000 >>
    /\ hiddenDatasets["B"] = TRUE
    /\ yMax10 = 1100

\* ---- properties of updateLeaderboard (SpecRank) ------------------------------
RenderedEntries(board) == [i \in DOMAIN board |-> board[i].entry]

RenderedNames(board) == [i \in DOMAIN board |-> board[i].entry.nickname]

Count(seq, e) == Cardinality({i \in DOMAIN seq : seq[i] = e})

SameEntries(s, t) ==
    /\ Len(s) = Len(t)
    /\ \A e \in Range(s) \cup Range(t) : Count(s, e) = Count(t, e)

SlotsDone == rank.phase = "done" /\ rank.title = "Highest Slots"

FastestDone == rank.phase = "done" /\ rank.title = "Fastest Response Times"

AverageDone == rank.phase = "done" /\ rank.title = "Average Response Times"

SlotA == [nickname |-> "A", value |-> 10, latency_ms |-> 250, total_latency_ms |-> 300]

SlotB == [nickname |-> "B", value |-> 9, latency_ms |-> 100, total_latency_ms |-> 50]

\* C8: 'Highest Slots' ranks an entry slower than 200 ms with value - 1 and
\* any other entry with its value, in descending order of that value, equal
\* values by ascending total_latency_ms; A{10, 250, 300} and B{9, 100, 50}
\* render as [B, A].
HighestSlotsRanking ==
    SlotsDone =>
        LET out == RenderedEntries(slotBoard)
            adjusted ==
                [i \in DOMAIN rank.data |->
                    IF rank.data[i].latency_ms > 200
                    THEN [rank.data[i] EXCEPT !.value = rank.data[i].value - 1]
                    ELSE rank.data[i]]
        IN  /\ SameEntries(out, adjusted)
            /\ \A i, j \in DOMAIN out :
                  i < j =>
                     \/ out[i].value > out[j].value
                     \/ /\ out[i].value = out[j].value
                        /\ out[i].total_latency_ms <= out[j].total_latency_ms
            /\ rank.data \in {<< SlotA, SlotB >>, << SlotB, SlotA >>} =>
                  RenderedNames(slotBoard) = << "B", "A" >>

SlotsScenarioRendered ==
    /\ SlotsDone
    /\ rank.data = << SlotA, SlotB >>
    /\ RenderedNames(slotBoard) = << "B", "A" >>
    /\ slotBoard[2].entry.value = 9

SampleA == [nickname |-> "A", latency_ms |-> 50, total_latency_ms |-> 55]

SampleB == [nickname |-> "B", latency_ms |-> 80, total_latency_ms |-> 60]

ScenarioBatches == {<< SampleA, SampleB >>, << SampleB, SampleA >>}

EntryA == [nickname |-> "A", value |-> 50, latency_ms |-> 50, total_latency_ms |-> 55]

EntryB == [nickname |-> "B", value |-> 80, latency_ms |-> 80, total_latency_ms |-> 60]

ScenarioBoards == {<< EntryA, EntryB >>, << EntryB, EntryA >>}

\* the mean shown by a row of the average leaderboard, in hundredths
RenderedMeans(board) == [i \in DOMAIN board |-> ToFixed2(board[i].entry.averageLatency)]

\* C9 as stated: for the batch [A{50, 55}, B{80, 60}] the Fastest ranking is
\* [A(50), B(80)] and the Average ranking is [B(60), A(55)].
ScenarioAverageBFirst ==
    /\ (FastestDone /\ rank.data \in ScenarioBoards) =>
          (/\ RenderedNames(latencyBoard) = << "A", "B" >>
           /\ [i \in DOMAIN latencyBoard |-> latencyBoard[i].entry.latency_ms] = << 50, 80 >>)
    /\ (AverageDone /\ rank.data \in ScenarioBatches) =>
          (/\ RenderedNames(slotBoard) = << "B", "A" >>
           /\ RenderedMeans(slotBoard) = << 6000, 5500 >>)

\* C9 amended: for the batch [A{50, 55}, B{80, 60}] the Fastest ranking is
\* [A(50), B(80)] and the Average ranking, the per-nickname mean of
\* total_latency_ms in ascending order, is [A(55), B(60)].
ScenarioAverageAscending ==
    /\ (FastestDone /\ rank.data \in ScenarioBoards) =>
          (/\ RenderedNames(latencyBoard) = << "A", "B" >>
           /\ [i \in DOMAIN latencyBoard |-> latencyBoard[i].entry.latency_ms] = << 50, 80 >>)
    /\ (AverageDone /\ rank.data \in ScenarioBatches) =>
          (/\ RenderedNames(slotBoard) = << "A", "B" >>
           /\ RenderedMeans(slotBoard) = << 5500, 6000 >>)

ScenarioAverageRendered ==
    /\ AverageDone
    /\ rank.data = << SampleA, SampleB >>
    /\ RenderedNames(slotBoard) = << "A", "B" >>

\* the key the claim names: latency_ms when the entry has one, else
\* total_latency_ms
ClaimedKey(e) == IF e.latency_ms = Undef THEN e.total_latency_ms ELSE e.latency_ms

\* C10: 'Fastest Response Times' renders the entries in non-decreasing order
\* of their key (latency_ms, or total_latency_ms for an entry without one),
\* and entries with equal keys keep their input order.
FastestRanking ==
    FastestDone =>
        LET out == RenderedEntries(latencyBoard)
            keys == {ClaimedKey(e) : e \in Range(rank.data)}
        IN  /\ Len(out) = Len(rank.data)
            /\ \A i, j \in DOMAIN out : i < j => ClaimedKey(out[i]) <= ClaimedKey(out[j])
            /\ \A k \in keys :
                  SelectSeq(out, LAMBDA e : ClaimedKey(e) = k)
                     = SelectSeq(rank.data, LAMBDA e : ClaimedKey(e) = k)

\* two different entries with the same key, given after a slower one and one
\* of them without latency_ms, are rendered first and in their input order
FastestStableRendered ==
    /\ FastestDone
    /\ Len(rank.data) = 3
    /\ ClaimedKey(rank.data[1]) > ClaimedKey(rank.data[2])
    /\ ClaimedKey(rank.data[2]) = ClaimedKey(rank.data[3])
    /\ rank.data[2].nickname # rank.data[3].nickname
    /\ rank.data[2].latency_ms = Undef
    /\ RenderedEntries(latencyBoard) = << rank.data[2], rank.data[3], rank.data[1] >>

\* C11: ranking never mutates its input: after updateLeaderboard returns,
\* for each of the three leaderboards, the sequence the caller passed holds
\* the same entries in the same order as before the call.
RankingKeepsInput == rank.phase = "done" => rank.after = rank.data

\* C12: whenever auto-refresh becomes enabled, at page initialisation and
\* when toggleRefresh resumes it, the periodic trigger is scheduled and a
\* refresh is triggered at once: fetchData is called, so that with no
\* refresh running the call takes the guard and is counted.
EnablingRefreshesAtOnce ==
    [][(Initialize \/ (ToggleRefresh /\ autoRefresh'))
        => /\ activeTimers' = activeTimers + 1
           /\ ~updating => (updating' /\ requestCount' = requestCount + 1)]_vars

\* C13: a refresh attempt that completes leaves the last-updated text in the
\* status line if and only if the fetch returned an OK response with a
\* well-formed [samples, summary] payload; a network error, a non-OK response
\* and a malformed payload each leave the generic error string.
StatusTellsOutcome ==
    [][\A p \in Payloads :
          FetchSettle(p) =>
             /\ status' \in {"Last updated", "Error updating data"}
             /\ status' = "Last updated" <=> (p.kind = "ok" /\ p.responseOk)]_vars

\* C14: failures are never fatal to the polling loop: while auto-refresh is
\* on and its timer set, whatever ended the attempts before, a tick that
\* finds no fetch in flight starts a new one: the fetchData call it makes
\* does not return at the guard and does not throw before its fetch.
TickStartsFreshAttempt ==
    (page = "ready" /\ autoRefresh /\ activeTimers > 0 /\ pending = 0)
        => (~GuardHeld(updating) /\ ~FetchDataThrows)

\* the nicknames of the series the chart holds, in their order
Labels(ds) == [i \in DOMAIN ds |-> ds[i].label]

\* C15 as stated: every nickname seen in the session (each has an entry in
\* nicknameColorMap from the refresh that first brought it) has a series in
\* the chart, also after a later batch without it.
SeriesNeverRemoved ==
    \A n \in DOMAIN nicknameColorMap : \E i \in DOMAIN datasets : datasets[i].label = n

\* C15 amended: the chart holds one series per distinct nickname of the
\* latest successfully applied batch, in sorted order, each with that
\* nickname's points of the batch, so a nickname of an earlier batch that the
\* latest one lacks has none.
SeriesFollowLatestBatch ==
    /\ Labels(datasets) = NicknamesOf(lastBatch)
    /\ \A i \in DOMAIN datasets :
          datasets[i].data =
             LET own == SelectSeq(lastBatch,
                           LAMBDA item : item.nickname = datasets[i].label)
             IN  [j \in DOMAIN own |-> own[j].latency_ms]

\* A was seen (it has its colour) and the chart, after a later batch with B
\* alone, has no series for it
SeriesDroppedWithBatch ==
    /\ status = "Last updated"
    /\ "A" \in DOMAIN nicknameColorMap
    /\ Labels(datasets) = << "B" >>

\* C16: colours are handed out in first-seen order through the palette, so
\* any six or fewer distinct nicknames seen in a session have pairwise
\* different colours.
SeenNicknamesDifferInColour ==
    Cardinality(DOMAIN nicknameColorMap) <= Len(colors) =>
        \A n, m \in DOMAIN nicknameColorMap :
            n # m => nicknameColorMap[n] # nicknameColorMap[m]

\* C17: in every render of the leaderboards that fetchData fills, the entry
\* at a rank that the previous render also filled is flagged if and only if
\* the figure it displays (the latency of a Fastest entry, the two-decimal
\* mean of an Average entry) differs from the one displayed there before.
FlagFollowsDisplayedValue ==
    [][(pending' < pending /\ status' = "Last updated") =>
          /\ \A i \in DOMAIN latencyBoard' \cap DOMAIN latencyBoard :
                latencyBoard'[i].newRecord
                   <=> latencyBoard'[i].entry.latency_ms # latencyBoard[i].entry.latency_ms
          /\ \A i \in DOMAIN slotBoard' \cap DOMAIN slotBoard :
                slotBoard'[i].newRecord
                   <=> ToFixed2(slotBoard'[i].entry.averageLatency)
                          # ToFixed2(slotBoard[i].entry.averageLatency)]_vars

\* C18: a legend click that leaves no visible series with a point handles
\* the rescale explicitly: the y-axis maximum keeps its previous value or is
\* set to a finite bound, never to the maximum of an empty sequence.
EmptyRescaleHandled ==
    [][\A k \in Nick :
          (LegendClick(k) /\ VisiblePoints(datasets') = {})
             => (yMax10' = yMax10 \/ yMax10' >= 0)]_vars

\* C19: after page initialisation exactly one refresh interval is set while
\* autoRefresh is true and none while it is false; pausing cancels the timer
\* alone and leaves a fetch in flight as it is, and a fetch that settles
\* while auto-refresh is paused releases the guard and, when it succeeded,
\* has its batch in the chart.
OneTimerWhileAutoRefresh ==
    [][/\ page' = "ready" => activeTimers' = (IF autoRefresh' THEN 1 ELSE 0)
       /\ (ToggleRefresh /\ autoRefresh) =>
             UNCHANGED << pending, updating, indicatorBusy, viewVars >>
       /\ (pending' < pending /\ ~autoRefresh) =>
             /\ ~updating' /\ ~indicatorBusy'
             /\ status' = "Last updated" =>
                   datasets' = Datasets(lastBatch', nicknameColorMap', hiddenDatasets)]_vars

\* auto-refresh is paused, its timer is cleared, and the fetch of a later
\* refresh is still in flight
PausedWithFetchInFlight ==
    /\ page = "ready" /\ ~autoRefresh /\ activeTimers = 0
    /\ pending = 1 /\ updating /\ chartCreated

\* the responses that end a refresh in the catch
FailingPayloads == {p \in Payloads : p.kind # "ok"}

\* C20 as stated: a refresh attempt that ends with the error status leaves
\* the consensus fields, both leaderboards, the previous-value cache, the
\* colour map, the chart series and the legend as they were.
FailedRefreshChangesNothing ==
    [][(pending' < pending /\ status' = "Error updating data") =>
          UNCHANGED << consensusHead, consensusTail, latencyBoard, slotBoard,
                       previousValues, nicknameColorMap, datasets, legend >>]_vars

\* C20 amended: a refresh attempt that ends with the error status keeps what
\* the try block did before the statement that threw and nothing after it.
\* A failed fetch or parse changes nothing; a summary without
\* consensus_percentage leaves the fields written before it changed; a
\* summary without latency_leaderboard leaves all consensus fields changed;
\* samples that are no array leave, besides, the Fastest leaderboard and its
\* cache entries changed.  The Average leaderboard, the colour map, the chart
\* series, the y-axis bound and the legend are as before in each of these.
FailedRefreshKeepsPrefix ==
    [][(pending' < pending /\ status' = "Error updating data") =>
          /\ UNCHANGED << slotBoard, nicknameColorMap, datasets, chartCreated,
                          yMax10, legend, hiddenDatasets >>
          /\ \A p \in FailingPayloads :
                FetchSettle(p) =>
                   /\ p.kind = "reject" =>
                         UNCHANGED << consensusHead, consensusTail, latencyBoard,
                                      previousValues >>
                   /\ p.kind = "badSummary" =>
                         /\ consensusHead' = p.summary
                         /\ UNCHANGED << consensusTail, latencyBoard, previousValues >>
                   /\ p.kind = "badBoard" =>
                         /\ consensusHead' = p.summary /\ consensusTail' = p.summary
                         /\ UNCHANGED << latencyBoard, previousValues >>
                   /\ p.kind = "badData" =>
                         /\ consensusHead' = p.summary /\ consensusTail' = p.summary
                         /\ RenderedEntries(latencyBoard') = Sorted("fastest", p.board)
                         /\ \A k \in PrevKeys :
                               previousValues'[k] =
                                  IF k[1] = "latencyLeaderboard" /\ k[2] < Len(p.board)
                                  THEN latencyBoard'[k[2] + 1].entry.value
                                  ELSE previousValues[k]]_vars

\* a refresh failed on its samples before any chart was made: the summary
\* and the Fastest leaderboard of the failed response are on the page
PartialUpdateShown ==
    /\ status = "Error updating data"
    /\ consensusTail # ""
    /\ latencyBoard # << >>
    /\ ~chartCreated /\ slotBoard = << >>

====
